---- MODULE Spec2Model ----
(***************************************************************************)
(* GhostMem: the page-fault driven compression / eviction engine of        *)
(* src/src/ghostmem/GhostMemoryManager.{h,cpp}, POSIX build (mmap,         *)
(* mprotect, SIGSEGV handler).                                             *)
(*                                                                         *)
(* Addresses are byte addresses; a page is named by its aligned base.      *)
(* The contents of a page are abstracted to one value of 0..MaxVal (0 is   *)
(* the all-zero page).  Library calls that take the recursive mutex for    *)
(* their whole body (Initialize, AllocateGhost, DeallocateGhost) are one   *)
(* action each.  The code of the signal handler is written as operators    *)
(* on a record of the stores it works on.  Spec, one application thread,   *)
(* runs the handler as part of the load or store that trapped.  SpecMT,    *)
(* two threads, cuts it where it reads or changes page protection or page  *)
(* contents, because loads and stores of other threads to committed pages  *)
(* do not take the mutex: HandlerEnter, HandlerEvict (to the end of the    *)
(* compress/store half of FreezePage), HandlerProtect (FreezePage's        *)
(* mprotect(PROT_NONE)), HandlerCommit (mprotect(PROT_READ|PROT_WRITE))    *)
(* and HandlerRestore.                                                     *)
(***************************************************************************)
EXTENDS Integers, Sequences, FiniteSets, TLC

\* ------------------------------------------------------------------ bounds
\* Number of pages of address space the platform can hand out.
NumPages == 3
\* Page contents range over 0..MaxVal; the application stores 1..MaxVal.
MaxVal == 2
\* max_memory_pages of the in-memory configuration.
MaxResident == 2
\* The swap file holds at most this many blobs; a further write fails (disk full).
MaxBlobs == 2
\* The compressor can fail only while fewer failures than this have happened.
MaxFailures == 1
\* max_memory_pages of the disk-backed configurations.
DiskResident == 1
\* Pages the platform hands out in a disk-backed run.
DiskNumPages == 2
\* max_memory_pages of the two-thread runs.
MTResident == 1
\* Pages the platform hands out in a two-thread run.
MTNumPages == 2
\* max_memory_pages of the second configuration of SpecLock
LockResident == 2

\* --------------------------------------------------------- program constants
PAGE_SIZE == 4096
MAX_PHYSICAL_PAGES == 5

nullptr == 0
Threads == {1, 2}
Pages == {i * PAGE_SIZE : i \in 1..NumPages}
\* Values the application stores; 0 is what a fresh page reads as.
StoreVals == 1..MaxVal
\* Sizes handed to AllocateGhost: nothing, one exact page, one byte more than a page.
AllocSizes == {0, PAGE_SIZE, PAGE_SIZE + 1}
\* written[p] of a page the application has not stored to since its allocation.
NoVal == 0 - 1

\* fault & ~(PAGE_SIZE - 1)
PageOf(addr) == addr - (addr % PAGE_SIZE)

\* A rounding that goes down to the page multiple below.
AlignDown(size) == (size \div PAGE_SIZE) * PAGE_SIZE

\* (size + PAGE_SIZE - 1) & ~(PAGE_SIZE - 1)
AlignUp(size) == ((size + PAGE_SIZE - 1) \div PAGE_SIZE) * PAGE_SIZE

\* The pages base, base + PAGE_SIZE, ... of a span of num_pages pages.
SpanPages(base, num_pages) == {base + i * PAGE_SIZE : i \in 0..(num_pages - 1)}

\* ------------------------------------------------------------ map helpers
EmptyMap == [k \in {} |-> 0]
MapSet(f, k, v) == [x \in (DOMAIN f) \cup {k} |-> IF x = k THEN v ELSE f[x]]
MapErase(f, k) == [x \in (DOMAIN f) \ {k} |-> f[x]]

\* std::list::remove(value): drops every occurrence.
ListRemove(list, page) == SelectSeq(list, LAMBDA x : x # page)
ListSet(list) == {list[i] : i \in 1..Len(list)}

\* ------------------------------------------------------------------ codec
\* LZ4_compress_default on one page: a blob in LZ4 format whose length
\* depends on the contents; LZ4_decompress_safe is its inverse on LZ4 blobs.
LZ4_compress_default(v) == [fmt |-> "lz4", data |-> v, size |-> 26 + v]
LZ4_decompress_safe(blob, old) == IF blob.fmt = "lz4" THEN blob.data ELSE old
\* A page written to the swap file as it is.
RawPage(v) == [fmt |-> "raw", data |-> v, size |-> PAGE_SIZE]

\* ------------------------------------------------------------------ state
VARIABLES
    config_,                 \* GhostConfig
    disk_file_descriptor,    \* -1: no file open
    disk_next_offset,
    disk_file,               \* the swap file: sequence of [off, blob]
    managed_blocks,          \* base -> aligned size
    allocation_metadata_,    \* ptr -> AllocationInfo
    page_ref_counts_,        \* page -> count
    active_ram_pages,        \* front = most recently used
    backing_store,           \* page -> compressed blob
    disk_page_locations,     \* page -> <<offset, size>>
    encryption_initialized_,
    prot,                    \* page -> "unmapped" | "none" | "rw"
    mem,                     \* page -> contents
    mutex_,                  \* owner thread, 0 when free
    pc,                      \* thread -> position in an access / the handler
    crashed,                 \* the default SIGSEGV action has ended the process
    written,                 \* page -> last value stored by the application
    owner,                   \* page -> thread that allocated it, 0 when unmapped
    shared,                  \* page -> a thread other than its owner has touched it
    failed,                  \* number of compressor and disk write failures so far (saturating)
    blob_page,               \* for each blob of the swap file, the page it was written for
    last                     \* the last event

vars == <<config_, disk_file_descriptor, disk_next_offset, disk_file,
          managed_blocks, allocation_metadata_, page_ref_counts_,
          active_ram_pages, backing_store, disk_page_locations,
          encryption_initialized_, prot, mem, mutex_, pc, crashed,
          written, owner, shared, failed, blob_page, last>>

\* What the library keeps, and what the platform keeps for it.
libVars == <<config_, disk_file_descriptor, disk_next_offset, disk_file,
             managed_blocks, allocation_metadata_, page_ref_counts_,
             active_ram_pages, backing_store, disk_page_locations,
             encryption_initialized_>>
diskVars == <<disk_file_descriptor, disk_next_offset, disk_file>>
ghostVars == <<written, owner, shared, blob_page>>

\* GhostConfig's member initialisers (h 107-167).
DefaultConfig ==
    [use_disk_backing |-> FALSE, max_memory_pages |-> 0,
     compress_before_disk |-> TRUE, encrypt_disk_pages |-> FALSE]

\* A thread outside any access; inside one, st is the position in the handler,
\* addr the fault address, blk the managed block the handler is at, victim
\* the page FreezePage is working on.
Idle == [st |-> "idle", addr |-> 0, blk |-> 0, victim |-> 0]

\* The last library call: its name, its pointer argument or result, and its
\* size argument or return value.  Loads and stores leave NoCall.
Event(op, ptr, ret) == [op |-> op, ptr |-> ptr, ret |-> ret]
NoCall == Event("none", 0, 0)

Init ==
    /\ config_ = DefaultConfig
    /\ disk_file_descriptor = -1
    /\ disk_next_offset = 0
    /\ disk_file = << >>
    /\ managed_blocks = EmptyMap
    /\ allocation_metadata_ = EmptyMap
    /\ page_ref_counts_ = EmptyMap
    /\ active_ram_pages = << >>
    /\ backing_store = EmptyMap
    /\ disk_page_locations = EmptyMap
    /\ encryption_initialized_ = FALSE
    /\ prot = [p \in Pages |-> "unmapped"]
    /\ mem = [p \in Pages |-> 0]
    /\ mutex_ = 0
    /\ pc = [t \in Threads |-> Idle]
    /\ crashed = FALSE
    /\ written = [p \in Pages |-> NoVal]
    /\ owner = [p \in Pages |-> 0]
    /\ shared = [p \in Pages |-> FALSE]
    /\ failed = 0
    /\ blob_page = << >>
    /\ last = NoCall

\* The stores the handler and DeallocateGhost work on, as one record.
Cur ==
    [list |-> active_ram_pages, rc |-> page_ref_counts_, bs |-> backing_store,
     dl |-> disk_page_locations, off |-> disk_next_offset, file |-> disk_file,
     prot |-> prot, mem |-> mem, written |-> written, owner |-> owner,
     shared |-> shared, failed |-> failed, blob_page |-> blob_page]

Install(M) ==
    /\ active_ram_pages' = M.list
    /\ page_ref_counts_' = M.rc
    /\ backing_store' = M.bs
    /\ disk_page_locations' = M.dl
    /\ disk_next_offset' = M.off
    /\ disk_file' = M.file
    /\ prot' = M.prot
    /\ mem' = M.mem
    /\ written' = M.written
    /\ owner' = M.owner
    /\ shared' = M.shared
    /\ failed' = M.failed
    /\ blob_page' = M.blob_page

\* munmap(page, PAGE_SIZE): the mapping and what the application stored go.
Munmap(M, page) ==
    [M EXCEPT !.prot[page] = "unmapped", !.mem[page] = 0,
              !.written[page] = NoVal, !.owner[page] = 0, !.shared[page] = FALSE]

\* A library call can start: the caller is not inside an access and the
\* recursive mutex is free.
CanCall(t) == ~crashed /\ pc[t].st = "idle" /\ mutex_ = 0

\* An open that reports failure and leaves a descriptor behind all the same.
OpenDiskFileLeavesDescriptor(ok) ==
    /\ disk_file_descriptor' = 3
    /\ disk_next_offset' = 0
    /\ disk_file' = << >>

\* ------------------------------------------------------------ Initialize
\* OpenDiskFile (cpp 109-143): open(O_CREAT|O_RDWR|O_TRUNC); the result is
\* assigned to disk_file_descriptor either way; on success the cursor is
\* reset and the file is empty.
OpenDiskFile(ok) ==
    IF ok
    THEN /\ disk_file_descriptor' = 3
         /\ disk_next_offset' = 0
         /\ disk_file' = << >>
    ELSE /\ disk_file_descriptor' = -1
         /\ UNCHANGED <<disk_next_offset, disk_file>>

\* Initialize (cpp 75-107).  The header asks for it before any AllocateGhost
\* and from the main thread before workers run, which is the guard here.
\* open_ok is the outcome of open(2).  last.ret: 1 for true, 0 for false.
Initialize(config, open_ok) ==
    /\ ~crashed
    /\ mutex_ = 0
    /\ \A t \in Threads : pc[t].st = "idle"
    /\ DOMAIN managed_blocks = {}
    /\ config_' = config
    /\ IF config.use_disk_backing
       THEN /\ OpenDiskFile(open_ok)
            /\ last' = Event("Initialize", 0, IF open_ok THEN 1 ELSE 0)
       ELSE /\ UNCHANGED diskVars
            /\ last' = Event("Initialize", 0, 1)
    /\ UNCHANGED <<managed_blocks, allocation_metadata_, page_ref_counts_,
                   active_ram_pages, backing_store, disk_page_locations,
                   encryption_initialized_, prot, mem, mutex_, pc, crashed,
                   ghostVars, failed>>

\* --------------------------------------------------------- AllocateGhost
\* mmap(NULL, aligned_size, PROT_NONE, MAP_PRIVATE|MAP_ANONYMOUS): any run of
\* unmapped pages of that length, or failure (always for length 0).
MmapResults(aligned_size) ==
    {nullptr} \cup
    {b \in Pages : /\ aligned_size > 0
                   /\ SpanPages(b, aligned_size \div PAGE_SIZE) \subseteq Pages
                   /\ \A p \in SpanPages(b, aligned_size \div PAGE_SIZE) :
                          prot[p] = "unmapped"}

\* A count that stops after the first page of the span.
IncrementRefCountsFirstPage(rc, span) ==
    LET first == {p \in span : \A q \in span : p <= q}
    IN  [p \in (DOMAIN rc) \cup first |->
            IF p \in first
            THEN (IF p \in DOMAIN rc THEN rc[p] ELSE 0) + 1
            ELSE rc[p]]

\* page_ref_counts_[current_page]++ for every page of the span (cpp 427-432).
IncrementRefCounts(rc, span) ==
    [p \in (DOMAIN rc) \cup span |->
        IF p \in span
        THEN (IF p \in DOMAIN rc THEN rc[p] ELSE 0) + 1
        ELSE rc[p]]

\* AllocateGhost (cpp 390-437).  last: the returned pointer and the size.
AllocateGhost(t, size) ==
    /\ CanCall(t)
    /\ \E ptr \in MmapResults(AlignUp(size)) :
        LET aligned_size == AlignUp(size)
            span == SpanPages(ptr, aligned_size \div PAGE_SIZE)
        IN  /\ last' = Event("AllocateGhost", ptr, size)
            /\ IF ptr # nullptr
               THEN /\ managed_blocks' = MapSet(managed_blocks, ptr, aligned_size)
                    /\ allocation_metadata_' =
                           MapSet(allocation_metadata_, ptr,
                                  [page_start |-> ptr, offset |-> 0, size |-> size])
                    /\ page_ref_counts_' = IncrementRefCounts(page_ref_counts_, span)
                    /\ prot' = [p \in Pages |-> IF p \in span THEN "none" ELSE prot[p]]
                    /\ mem' = [p \in Pages |-> IF p \in span THEN 0 ELSE mem[p]]
                    /\ written' = [p \in Pages |-> IF p \in span THEN NoVal ELSE written[p]]
                    /\ owner' = [p \in Pages |-> IF p \in span THEN t ELSE owner[p]]
                    /\ shared' = [p \in Pages |-> IF p \in span THEN FALSE ELSE shared[p]]
                    /\ UNCHANGED blob_page
               ELSE UNCHANGED <<managed_blocks, allocation_metadata_,
                                page_ref_counts_, prot, mem, ghostVars>>
    /\ UNCHANGED <<config_, diskVars, active_ram_pages, backing_store,
                   disk_page_locations, encryption_initialized_, mutex_, pc,
                   crashed, failed>>

\* ------------------------------------------------------- DeallocateGhost
\* A clean-up that leaves the disk_page_locations entry of the freed page.
DeallocPageKeepsIndex(M, page_start) ==
    IF page_start \notin DOMAIN M.rc
    THEN M
    ELSE IF M.rc[page_start] - 1 = 0
         THEN Munmap([M EXCEPT !.rc = MapErase(M.rc, page_start),
                               !.list = ListRemove(M.list, page_start),
                               !.bs = MapErase(M.bs, page_start)],
                     page_start)
         ELSE [M EXCEPT !.rc[page_start] = @ - 1]

\* A clean-up that forgets active_ram_pages.remove(page_start).
DeallocPageKeepsListed(M, page_start) ==
    IF page_start \notin DOMAIN M.rc
    THEN M
    ELSE IF M.rc[page_start] - 1 = 0
         THEN Munmap([M EXCEPT !.rc = MapErase(M.rc, page_start),
                               !.bs = MapErase(M.bs, page_start),
                               !.dl = MapErase(M.dl, page_start)],
                     page_start)
         ELSE [M EXCEPT !.rc[page_start] = @ - 1]

\* A clean-up that leaves the compressed copy of the freed page in
\* backing_store.
DeallocPageKeepsCopy(M, page_start) ==
    IF page_start \notin DOMAIN M.rc
    THEN M
    ELSE IF M.rc[page_start] - 1 = 0
         THEN Munmap([M EXCEPT !.rc = MapErase(M.rc, page_start),
                               !.list = ListRemove(M.list, page_start),
                               !.dl = MapErase(M.dl, page_start)],
                     page_start)
         ELSE [M EXCEPT !.rc[page_start] = @ - 1]

\* One iteration of the loop of cpp 473-530 for page_start.
DeallocPage(M, page_start) ==
    IF page_start \notin DOMAIN M.rc
    THEN M
    ELSE IF M.rc[page_start] - 1 = 0
         THEN Munmap([M EXCEPT !.rc = MapErase(M.rc, page_start),
                               !.list = ListRemove(M.list, page_start),
                               !.bs = MapErase(M.bs, page_start),
                               !.dl = MapErase(M.dl, page_start)],
                     page_start)
         ELSE [M EXCEPT !.rc[page_start] = @ - 1]

RECURSIVE DeallocLoop(_, _, _, _)
DeallocLoop(M, ptr, i, num_pages) ==
    IF i >= num_pages
    THEN M
    ELSE DeallocLoop(DeallocPage(M, ptr + i * PAGE_SIZE), ptr, i + 1, num_pages)

\* A nullptr path that clears the resident list.
NullReturnClearsList(M) == [M EXCEPT !.list = << >>]

\* if (ptr == nullptr) return; (cpp 442-445): nothing has been touched.
NullReturn(M) == M

\* An untracked path that runs the clean-up of the page all the same.
UntrackedReturnFreesPage(M, ptr) == DeallocPage(M, ptr)

\* The return for a pointer allocation_metadata_ does not hold (cpp 450-460):
\* a warning when verbose, nothing else.
UntrackedReturn(M, ptr) == M

\* DeallocateGhost (cpp 439-531).  nullptr returns before the mutex is taken;
\* the size argument is not read.  last.ret: 0 nullptr, 1 untracked, 2 freed.
DeallocateGhost(t, ptr, size) ==
    /\ ~crashed
    /\ pc[t].st = "idle"
    /\ (ptr # nullptr) => (mutex_ = 0)
    /\ IF ptr = nullptr
       THEN /\ Install(NullReturn(Cur))
            /\ UNCHANGED allocation_metadata_
            /\ last' = Event("DeallocateGhost", ptr, 0)
       ELSE IF ptr \notin DOMAIN allocation_metadata_
       THEN /\ Install(UntrackedReturn(Cur, ptr))
            /\ UNCHANGED allocation_metadata_
            /\ last' = Event("DeallocateGhost", ptr, 1)
       ELSE LET allocation_size == allocation_metadata_[ptr].size
                num_pages == AlignUp(allocation_size) \div PAGE_SIZE
            IN  /\ allocation_metadata_' = MapErase(allocation_metadata_, ptr)
                /\ Install(DeallocLoop(Cur, ptr, 0, num_pages))
                /\ last' = Event("DeallocateGhost", ptr, 2)
    /\ UNCHANGED <<config_, disk_file_descriptor, managed_blocks,
                   encryption_initialized_, mutex_, pc, crashed>>

\* The pages of an allocation record: num_pages pages from the pointer
\* (cpp 462-476, the same span AllocateGhost counted in cpp 427-432).
RecordPages(ptr) ==
    SpanPages(ptr, AlignUp(allocation_metadata_[ptr].size) \div PAGE_SIZE)

\* The pages of the live allocations.
LivePages == UNION {RecordPages(ptr) : ptr \in DOMAIN allocation_metadata_}

\* --------------------------------------------------------- EvictOldestPage
\* effective_max (cpp 260-263).
EffectiveMax ==
    IF config_.max_memory_pages > 0
    THEN config_.max_memory_pages
    ELSE MAX_PHYSICAL_PAGES

Back(list) == list[Len(list)]

\* A loop that runs whenever a page is resident, whatever the limit.
EvictLoopRunsNonEmpty(list, ignore_page) ==
    /\ Len(list) >= 1
    /\ ~(Back(list) = ignore_page /\ Len(list) < 2)

\* The loop condition with > in place of >=.
EvictLoopRunsAbove(list, ignore_page) ==
    /\ Len(list) > EffectiveMax
    /\ ~(Back(list) = ignore_page /\ Len(list) < 2)

\* The loop of cpp 266-331 runs one more iteration: the list is at the limit
\* and the emergency brake (the only page is ignore_page) does not apply.
EvictLoopRuns(list, ignore_page) ==
    /\ Len(list) >= EffectiveMax
    /\ ~(Back(list) = ignore_page /\ Len(list) < 2)

\* A choice that takes the most recently used page, the head of the list.
VictimOfHead(list, ignore_page) == list[1]

\* A choice that takes the tail whatever page it is.
VictimOfTail(list, ignore_page) == Back(list)

\* The victim of that iteration (cpp 269-290) and the list without it.
VictimOf(list, ignore_page) ==
    IF Back(list) = ignore_page THEN list[Len(list) - 1] ELSE Back(list)

\* A removal that leaves the list as it is.
ListAfterPickKeeps(list, ignore_page) == list

\* A removal that takes every page but ignore_page off the list.
ListAfterPickDropsAll(list, ignore_page) ==
    IF Back(list) = ignore_page THEN <<Back(list)>> ELSE << >>

\* The list after the removal of the victim (cpp 275-290).
ListAfterPick(list, ignore_page) ==
    IF Back(list) = ignore_page
    THEN SubSeq(list, 1, Len(list) - 2) \o <<Back(list)>>
    ELSE SubSeq(list, 1, Len(list) - 1)

\* A zombie branch that drops the entries and leaves the page mapped.
EvictZombieKeepsMapping(M, victim) ==
    [M EXCEPT !.rc = MapErase(M.rc, victim),
              !.bs = MapErase(M.bs, victim),
              !.dl = MapErase(M.dl, victim)]

\* The zombie branch (cpp 294-320).
EvictZombie(M, victim) ==
    Munmap([M EXCEPT !.rc = MapErase(M.rc, victim),
                     !.bs = MapErase(M.bs, victim),
                     !.dl = MapErase(M.dl, victim)],
           victim)

\* ----------------------------------------------------------------- disk I/O
\* lseek + write succeed: a file is open and the disk is not full.
DiskWritable(M) == disk_file_descriptor # -1 /\ Len(M.file) < MaxBlobs

\* A write that moves the cursor by a whole page whatever the length.
WriteToDiskAdvancesPage(M, blob) ==
    [M EXCEPT !.file = Append(@, [off |-> M.off, blob |-> blob]),
              !.off = @ + PAGE_SIZE]

\* A write that leaves the cursor where it was.
WriteToDiskKeepsCursor(M, blob) ==
    [M EXCEPT !.file = Append(@, [off |-> M.off, blob |-> blob])]

\* WriteToDisk (cpp 164-208) when it returns true: the blob lands at the
\* cursor and the cursor moves past it.
WriteToDisk(M, blob) ==
    [M EXCEPT !.file = Append(@, [off |-> M.off, blob |-> blob]),
              !.off = @ + blob.size]

\* A read that ignores the offset and returns the first blob of the file.
ReadFromDiskFirst(M, offset) == M.file[1].blob

\* ReadFromDisk (cpp 210-251): the blob that was written at offset.
ReadFromDisk(M, offset) ==
    LET hits == {i \in 1..Len(M.file) : M.file[i].off = offset}
    IN  M.file[CHOOSE i \in hits : TRUE].blob

\* --------------------------------------------------------------- FreezePage
\* The compressor may fail only while the failure budget lasts.
CompressOutcomes(M) == {TRUE} \cup (IF M.failed < MaxFailures THEN {FALSE} ELSE {})

Failure(M) == [M EXCEPT !.failed = IF @ < MaxFailures THEN @ + 1 ELSE @]

\* FreezePage (cpp 533-616) up to its mprotect: m the stores afterwards,
\* protect whether control reaches mprotect(PROT_NONE), stored whether the
\* contents of the page went to the backing store or the swap file.
\* compress_ok: LZ4_compress_default returned a positive size.
FreezeStore(M, page_start, compress_ok) ==
    LET lz4 == LZ4_compress_default(M.mem[page_start])
        raw == RawPage(M.mem[page_start])
    IN
    IF config_.use_disk_backing
    THEN IF config_.compress_before_disk
         THEN IF compress_ok
              THEN IF DiskWritable(M)
                   THEN [m |-> [WriteToDisk(M, lz4) EXCEPT
                                  !.dl = MapSet(@, page_start, <<M.off, lz4.size>>),
                                  !.blob_page = Append(@, page_start)],
                         protect |-> TRUE, stored |-> TRUE]
                   ELSE [m |-> Failure(M), protect |-> FALSE, stored |-> FALSE]
              ELSE [m |-> Failure(M), protect |-> TRUE, stored |-> FALSE]
         ELSE IF DiskWritable(M)
              THEN [m |-> [WriteToDisk(M, raw) EXCEPT
                             !.dl = MapSet(@, page_start, <<M.off, PAGE_SIZE>>),
                             !.blob_page = Append(@, page_start)],
                    protect |-> TRUE, stored |-> TRUE]
              ELSE [m |-> Failure(M), protect |-> FALSE, stored |-> FALSE]
    ELSE IF compress_ok
         THEN [m |-> [M EXCEPT !.bs = MapSet(@, page_start, lz4)],
               protect |-> TRUE, stored |-> TRUE]
         ELSE [m |-> Failure(M), protect |-> FALSE, stored |-> FALSE]

\* A freeze that leaves the page accessible.
FreezeProtectSkipped(M, page_start) == M

\* mprotect(page_start, PAGE_SIZE, PROT_NONE): the frame keeps its bytes.
FreezeProtect(M, page_start) ==
    IF M.prot[page_start] = "unmapped" THEN M
    ELSE [M EXCEPT !.prot[page_start] = "none"]

FreezePage(M, page_start, compress_ok) ==
    LET F == FreezeStore(M, page_start, compress_ok)
    IN  IF F.protect THEN FreezeProtect(F.m, page_start) ELSE F.m

\* One iteration of the eviction loop: every state it can end in.
EvictIterations(M, ignore_page) ==
    LET victim == VictimOf(M.list, ignore_page)
        M1 == [M EXCEPT !.list = ListAfterPick(M.list, ignore_page)]
    IN  IF victim \notin DOMAIN M.rc \/ M.rc[victim] = 0
        THEN {EvictZombie(M1, victim)}
        ELSE {FreezePage(M1, victim, c) : c \in CompressOutcomes(M1)}

\* EvictOldestPage (cpp 257-332): every state the loop can end in.
RECURSIVE EvictOldestPage(_, _)
EvictOldestPage(M, ignore_page) ==
    IF ~EvictLoopRuns(M.list, ignore_page)
    THEN {M}
    ELSE UNION {EvictOldestPage(M2, ignore_page) :
                    M2 \in EvictIterations(M, ignore_page)}

\* ------------------------------------------------------------ SignalHandler
\* A test that takes every registered block for the block of the fault.
ContainingAnyBlock(fault) == DOMAIN managed_blocks

\* The managed blocks [start, end) that contain the fault address.
Containing(fault) ==
    {b \in DOMAIN managed_blocks : fault >= b /\ fault < b + managed_blocks[b]}

Min(S) == CHOOSE x \in S : \A y \in S : x <= y

\* An mprotect that succeeds on every address.
CommitSucceedsAlways(M, page_start) == TRUE

\* mprotect(page_start, PAGE_SIZE, PROT_READ | PROT_WRITE) == 0.
CommitSucceeds(M, page_start) == M.prot[page_start] # "unmapped"
Commit(M, page_start) == [M EXCEPT !.prot[page_start] = "rw"]

\* A handler that zero-fills the frame whatever is stored for the page.
RestoredContentsZeroFill(M, page_start) == 0

\* What the handler puts into the frame (cpp 741-787).
RestoredContents(M, page_start) ==
    IF config_.use_disk_backing
    THEN IF page_start \in DOMAIN M.dl
         THEN LET blob == ReadFromDisk(M, M.dl[page_start][1])
              IN  IF config_.compress_before_disk
                  THEN LZ4_decompress_safe(blob, M.mem[page_start])
                  ELSE blob.data
         ELSE 0
    ELSE IF page_start \in DOMAIN M.bs
         THEN LZ4_decompress_safe(M.bs[page_start], M.mem[page_start])
         ELSE 0

\* A MarkPageAsActive that turns the rest of the list round.
MarkPageAsActiveReversed(list, page_start) ==
    LET rest == ListRemove(list, page_start)
    IN  <<page_start>> \o [i \in 1..Len(rest) |-> rest[Len(rest) + 1 - i]]

\* A MarkPageAsActive that forgets the remove.
MarkPageAsActiveNoRemove(list, page_start) == <<page_start>> \o list

\* A MarkPageAsActive that forgets the push_front.
MarkPageAsActiveNoPush(list, page_start) == ListRemove(list, page_start)

\* MarkPageAsActive (cpp 379-388).
MarkPageAsActive(list, page_start) == <<page_start>> \o ListRemove(list, page_start)

\* A restore that consumes the disk index entry as well.
RestoreDropsIndex(M, page_start) ==
    [M EXCEPT !.mem[page_start] = RestoredContents(M, page_start),
              !.bs = IF config_.use_disk_backing THEN @ ELSE MapErase(@, page_start),
              !.dl = MapErase(@, page_start),
              !.list = MarkPageAsActive(@, page_start)]

\* A restore that leaves the compressed copy in backing_store.
RestoreKeepsCopy(M, page_start) ==
    [M EXCEPT !.mem[page_start] = RestoredContents(M, page_start),
              !.list = MarkPageAsActive(@, page_start)]

\* The restore and the MarkPageAsActive that follow a successful mprotect;
\* only the in-memory mode erases the stored copy.
Restore(M, page_start) ==
    [M EXCEPT !.mem[page_start] = RestoredContents(M, page_start),
              !.bs = IF config_.use_disk_backing THEN @ ELSE MapErase(@, page_start),
              !.list = MarkPageAsActive(@, page_start)]

\* The loop over managed_blocks (cpp 724-798) from the blocks still to
\* visit: every way it can end.  handled = FALSE is the fall-through to
\* signal(SIGSEGV, SIG_DFL); raise(SIGSEGV).
RECURSIVE HandlerLoop(_, _, _)
HandlerLoop(M, fault, blocks) ==
    IF blocks = {}
    THEN {[m |-> M, handled |-> FALSE]}
    ELSE LET page_start == PageOf(fault)
         IN  UNION {IF CommitSucceeds(M1, page_start)
                    THEN {[m |-> Restore(Commit(M1, page_start), page_start),
                           handled |-> TRUE]}
                    ELSE HandlerLoop(M1, fault, blocks \ {Min(blocks)}) :
                        M1 \in EvictOldestPage(M, page_start)}

\* SignalHandler (cpp 711-805) run from lock to return.
SignalHandler(M, fault) == HandlerLoop(M, fault, Containing(fault))

\* ------------------------------------------------------- loads and stores
\* A thread other than the owner of the page touches it.
Touch(M, t, page) ==
    [M EXCEPT !.shared[page] = @ \/ (M.owner[page] # t)]

\* The store instruction lands.
Store(M, t, page, v) ==
    [Touch(M, t, page) EXCEPT !.mem[page] = v, !.written[page] = v]

\* A load by thread t.  On a committed page it completes at once; otherwise
\* it traps, the handler runs on the same thread, and the load is restarted.
Read(t, addr) ==
    LET page == PageOf(addr) IN
    /\ ~crashed
    /\ pc[t].st = "idle"
    /\ (prot[page] # "rw") => (mutex_ = 0)
    /\ IF prot[page] = "rw"
       THEN /\ Install(Touch(Cur, t, page))
            /\ last' = NoCall
            /\ UNCHANGED crashed
       ELSE \E r \in SignalHandler(Cur, addr) :
               /\ crashed' = ~r.handled
               /\ IF r.handled
                  THEN /\ Install(Touch(r.m, t, page))
                       /\ last' = NoCall
                  ELSE /\ Install(r.m)
                       /\ last' = Event("SIGSEGV", addr, 0)
    /\ UNCHANGED <<config_, disk_file_descriptor, managed_blocks,
                   allocation_metadata_, encryption_initialized_, mutex_, pc>>

\* A store of v by thread t, to a page of a live allocation.
Write(t, addr, v) ==
    LET page == PageOf(addr) IN
    /\ ~crashed
    /\ pc[t].st = "idle"
    /\ (prot[page] # "rw") => (mutex_ = 0)
    /\ prot[page] # "unmapped"
    /\ IF prot[page] = "rw"
       THEN /\ Install(Store(Cur, t, page, v))
            /\ last' = NoCall
            /\ UNCHANGED crashed
       ELSE \E r \in SignalHandler(Cur, addr) :
               /\ crashed' = ~r.handled
               /\ IF r.handled
                  THEN /\ Install(Store(r.m, t, page, v))
                       /\ last' = NoCall
                  ELSE /\ Install(r.m)
                       /\ last' = Event("SIGSEGV", addr, 0)
    /\ UNCHANGED <<config_, disk_file_descriptor, managed_blocks,
                   allocation_metadata_, encryption_initialized_, mutex_, pc>>

\* Every way a load of addr can end in the current state: whether the
\* process survives it, the value it returns, the failures so far.
LoadResults(addr) ==
    LET page == PageOf(addr) IN
    IF prot[page] = "rw"
    THEN {[handled |-> TRUE, val |-> mem[page], failed |-> failed]}
    ELSE {[handled |-> r.handled, val |-> r.m.mem[page], failed |-> r.m.failed] :
              r \in SignalHandler(Cur, addr)}

\* ------------------------------------------- the handler among other threads
\* The access of thread t traps: SIGSEGV is delivered on t.
Trap(t, addr) ==
    /\ ~crashed
    /\ pc[t].st = "idle"
    /\ prot[PageOf(addr)] = "none"
    /\ pc' = [pc EXCEPT ![t] = [Idle EXCEPT !.st = "trap", !.addr = addr]]
    /\ Install(Touch(Cur, t, PageOf(addr)))
    /\ UNCHANGED <<config_, disk_file_descriptor, managed_blocks,
                   allocation_metadata_, encryption_initialized_, mutex_,
                   crashed, last>>

\* A handler that goes on without waiting for mutex_.
HandlerEnterNoWait(t) ==
    /\ ~crashed
    /\ pc[t].st = "trap"
    /\ mutex_' = t
    /\ pc' = [pc EXCEPT ![t].st = "evict",
                        ![t].blk = Min(Containing(pc[t].addr))]
    /\ UNCHANGED <<libVars, prot, mem, ghostVars, failed, crashed, last>>

\* lock_guard, then the first block that contains the fault address; with
\* no such block, signal(SIGSEGV, SIG_DFL); raise(SIGSEGV).
HandlerEnter(t) ==
    /\ ~crashed
    /\ pc[t].st = "trap"
    /\ mutex_ = 0
    /\ mutex_' = t
    /\ IF Containing(pc[t].addr) # {}
       THEN /\ pc' = [pc EXCEPT ![t].st = "evict",
                                ![t].blk = Min(Containing(pc[t].addr))]
            /\ UNCHANGED <<crashed, last>>
       ELSE /\ crashed' = TRUE
            /\ last' = NoCall
            /\ UNCHANGED pc
    /\ UNCHANGED <<libVars, prot, mem, ghostVars, failed>>

\* EvictOldestPage at the head of its loop.  One more iteration: the victim
\* leaves the list and FreezePage runs up to its mprotect.  No more
\* iteration: the handler goes on to mprotect(PROT_READ | PROT_WRITE).
HandlerEvict(t) ==
    LET page_start == PageOf(pc[t].addr)
        victim == VictimOf(active_ram_pages, page_start)
        M1 == [Cur EXCEPT !.list = ListAfterPick(active_ram_pages, page_start)]
    IN
    /\ ~crashed
    /\ pc[t].st = "evict"
    /\ IF EvictLoopRuns(active_ram_pages, page_start)
       THEN IF victim \notin DOMAIN page_ref_counts_ \/ page_ref_counts_[victim] = 0
            THEN /\ Install(EvictZombie(M1, victim))
                 /\ UNCHANGED <<pc, last>>
            ELSE \E c \in CompressOutcomes(M1) :
                    LET F == FreezeStore(M1, victim, c)
                    IN  /\ Install(F.m)
                        /\ pc' = [pc EXCEPT ![t].st = IF F.protect THEN "protect" ELSE "evict",
                                            ![t].victim = victim]
                        /\ last' = NoCall
       ELSE /\ Install(Cur)
            /\ pc' = [pc EXCEPT ![t].st = "commit"]
            /\ UNCHANGED last
    /\ UNCHANGED <<config_, disk_file_descriptor, managed_blocks,
                   allocation_metadata_, encryption_initialized_, mutex_, crashed>>

\* FreezePage's mprotect(PROT_NONE) on the victim.
HandlerProtect(t) ==
    /\ ~crashed
    /\ pc[t].st = "protect"
    /\ Install(FreezeProtect(Cur, pc[t].victim))
    /\ pc' = [pc EXCEPT ![t].st = "evict"]
    /\ UNCHANGED <<config_, disk_file_descriptor, managed_blocks,
                   allocation_metadata_, encryption_initialized_, mutex_,
                   crashed, last>>

\* mprotect(PROT_READ | PROT_WRITE) on the faulting page.  If it fails the
\* loop goes to the next block that contains the fault address, and past the
\* last one to signal(SIGSEGV, SIG_DFL); raise(SIGSEGV).
HandlerCommit(t) ==
    LET page_start == PageOf(pc[t].addr)
        rest == {b \in Containing(pc[t].addr) : b > pc[t].blk}
    IN
    /\ ~crashed
    /\ pc[t].st = "commit"
    /\ IF CommitSucceeds(Cur, page_start)
       THEN /\ Install(Commit(Cur, page_start))
            /\ pc' = [pc EXCEPT ![t].st = "restore"]
            /\ UNCHANGED <<crashed, last>>
       ELSE /\ Install(Cur)
            /\ IF rest = {}
               THEN /\ crashed' = TRUE
                    /\ last' = NoCall
                    /\ UNCHANGED pc
               ELSE /\ pc' = [pc EXCEPT ![t].st = "evict", ![t].blk = Min(rest)]
                    /\ UNCHANGED <<crashed, last>>
    /\ UNCHANGED <<config_, disk_file_descriptor, managed_blocks,
                   allocation_metadata_, encryption_initialized_, mutex_>>

\* The restore, MarkPageAsActive and the return of the handler.
HandlerRestore(t) ==
    LET page_start == PageOf(pc[t].addr)
        M == Restore(Cur, page_start)
    IN
    /\ ~crashed
    /\ pc[t].st = "restore"
    /\ Install(M)
    /\ mutex_' = 0
    /\ pc' = [pc EXCEPT ![t].st = "retry"]
    /\ last' = NoCall
    /\ UNCHANGED <<config_, disk_file_descriptor, managed_blocks,
                   allocation_metadata_, encryption_initialized_, crashed>>

\* The handler has returned and the instruction is restarted: a load, or a
\* store of v (do_store), if the page is committed now; a new trap if not.
Retry(t, do_store, v) ==
    LET page == PageOf(pc[t].addr) IN
    /\ ~crashed
    /\ pc[t].st = "retry"
    /\ IF prot[page] = "rw"
       THEN /\ pc' = [pc EXCEPT ![t] = Idle]
            /\ IF do_store
               THEN /\ Install(Store(Cur, t, page, v))
                    /\ last' = NoCall
               ELSE /\ Install(Touch(Cur, t, page))
                    /\ last' = NoCall
       ELSE /\ pc' = [pc EXCEPT ![t].st = "trap"]
            /\ Install(Cur)
            /\ UNCHANGED last
    /\ UNCHANGED <<config_, disk_file_descriptor, managed_blocks,
                   allocation_metadata_, encryption_initialized_, mutex_, crashed>>

\* ---------------------------------------------------------- specifications
MemConfig(max) == [DefaultConfig EXCEPT !.max_memory_pages = max]
DiskConfig(max, compress, encrypt) ==
    [use_disk_backing |-> TRUE, max_memory_pages |-> max,
     compress_before_disk |-> compress, encrypt_disk_pages |-> encrypt]

\* The configurations the application passes to Initialize.
Configs ==
    {MemConfig(MaxResident)} \cup
    {DiskConfig(DiskResident, c, e) : c \in BOOLEAN, e \in BOOLEAN}

\* Addresses the application loads from and stores to.
Addrs == Pages \cup {p + PAGE_SIZE - 1 : p \in Pages}

\* In a disk-backed run the application allocates single pages and the
\* platform places them in the first DiskNumPages pages.
DiskEnv(size) ==
    config_.use_disk_backing =>
        (size = PAGE_SIZE /\ last'.ptr <= DiskNumPages * PAGE_SIZE)

\* One application thread: a trapping access runs the handler to its end.
Next ==
    \/ \E config \in Configs, open_ok \in BOOLEAN : Initialize(config, open_ok)
    \/ \E size \in AllocSizes : AllocateGhost(1, size) /\ DiskEnv(size)
    \/ \E ptr \in Pages \cup {nullptr}, size \in AllocSizes :
           DeallocateGhost(1, ptr, size)
    \/ \E addr \in Addrs : Read(1, addr)
    \/ \E addr \in Addrs, v \in StoreVals : Write(1, addr, v)

Spec == Init /\ [][Next]_vars

\* Two application threads on an in-memory manager with room for MTResident
\* pages:
\* single-page allocations, loads and stores of committed pages, and the
\* handler in steps.
MTConfigs == {MemConfig(MTResident)}

StepMT(t) ==
    \/ AllocateGhost(t, PAGE_SIZE) /\ last'.ptr <= MTNumPages * PAGE_SIZE
    \/ \E p \in Pages : prot[p] = "rw" /\ Read(t, p)
    \/ \E p \in Pages, v \in StoreVals : prot[p] = "rw" /\ Write(t, p, v)
    \/ \E p \in Pages : Trap(t, p)
    \/ HandlerEnter(t)
    \/ HandlerEvict(t)
    \/ HandlerProtect(t)
    \/ HandlerCommit(t)
    \/ HandlerRestore(t)
    \/ \E do_store \in BOOLEAN, v \in StoreVals : Retry(t, do_store, v)

NextMT ==
    \/ \E config \in MTConfigs : Initialize(config, TRUE)
    \/ \E t \in Threads : StepMT(t)

SpecMT == Init /\ [][NextMT]_vars

\* Threads that call AllocateGhost and DeallocateGhost and take faults at
\* the same time (tests/test_threading.cpp).  The application does not free
\* a page while an access of another thread to it is under way.
NotInUse(ptr) ==
    \A u \in Threads : pc[u].st = "idle" \/ PageOf(pc[u].addr) # ptr

StepLock(t) ==
    \/ AllocateGhost(t, PAGE_SIZE) /\ last'.ptr <= MTNumPages * PAGE_SIZE
    \/ \E ptr \in Pages : DeallocateGhost(t, ptr, PAGE_SIZE) /\ NotInUse(ptr)
    \/ \E p \in Pages : prot[p] = "rw" /\ Read(t, p)
    \/ \E p \in Pages : Trap(t, p)
    \/ HandlerEnter(t)
    \/ HandlerEvict(t)
    \/ HandlerProtect(t)
    \/ HandlerCommit(t)
    \/ HandlerRestore(t)
    \/ Retry(t, FALSE, MaxVal)

\* The limits these threads run under: at LockResident pages two threads
\* that trap on one page find it in the resident list next to another page.
LockConfigs == {MemConfig(MTResident), MemConfig(LockResident)}

NextLock ==
    \/ \E config \in LockConfigs : Initialize(config, TRUE)
    \/ \E t \in Threads : StepLock(t)

\* Scheduling: a thread inside the handler keeps running, and a thread that
\* waits for mutex_ gets it when it is free again and again.
FairLock ==
    \A t \in Threads :
        /\ SF_vars(HandlerEnter(t))
        /\ WF_vars(HandlerEvict(t) \/ HandlerProtect(t)
                      \/ HandlerCommit(t) \/ HandlerRestore(t))

SpecLock == Init /\ [][NextLock]_vars /\ FairLock

\* One application thread in a process whose other code maps memory too.
\* DeallocateGhost gives the pages back with munmap and keeps the
\* managed_blocks entry, so a later mmap of the process (malloc, a library,
\* a guard page) can be handed a page that still lies inside a block the
\* handler claims.  The mapping starts inaccessible and has no reference
\* count.
ForeignMap(page) ==
    /\ CanCall(1)
    /\ prot[page] = "unmapped"
    /\ prot' = [prot EXCEPT ![page] = "none"]
    /\ last' = Event("mmap", page, 0)
    /\ UNCHANGED <<libVars, mem, mutex_, pc, crashed, ghostVars, failed>>

NextForeign ==
    \/ \E config \in LockConfigs : Initialize(config, TRUE)
    \/ \E size \in {PAGE_SIZE, PAGE_SIZE + 1} : AllocateGhost(1, size)
    \/ \E ptr \in Pages : DeallocateGhost(1, ptr, PAGE_SIZE)
    \/ \E page \in Pages : Read(1, page)
    \/ \E page \in Pages : Write(1, page, MaxVal)
    \/ \E page \in Pages : ForeignMap(page)

SpecForeign == Init /\ [][NextForeign]_vars

\* ------------------------------------------------------------------ claims
\* C1: in-memory mode, no compressor failure, one thread: a load of any byte
\* of a live allocation returns the value last stored there, whether the
\* page is resident or has to be restored from the backing store.
C1_ReadReturnsLastWrite ==
    (~crashed /\ ~config_.use_disk_backing /\ failed = 0) =>
        \A addr \in Addrs :
            written[PageOf(addr)] # NoVal =>
                \A r \in LoadResults(addr) :
                    r.failed = 0 =>
                        r.handled /\ r.val = written[PageOf(addr)]

\* C1 witness: a page the application stored MaxVal to sits compressed in the
\* backing store, so the next load of it goes through the restore.
C1_Witness ==
    /\ ~config_.use_disk_backing
    /\ failed = 0
    /\ \E p \in Pages :
          /\ prot[p] = "none"
          /\ p \in DOMAIN backing_store
          /\ written[p] = MaxVal

\* C3: between operations the resident list is never longer than the
\* effective limit.
C3_ResidentWithinLimit == Len(active_ram_pages) <= EffectiveMax

\* C3 witness: a configured limit is reached and a page has been evicted.
C3_Witness ==
    /\ config_.max_memory_pages > 0
    /\ Len(active_ram_pages) = EffectiveMax
    /\ \E p \in Pages :
          /\ prot[p] = "none"
          /\ p \in (DOMAIN backing_store) \cup (DOMAIN disk_page_locations)

\* C2: threads that load and store only pages they allocated themselves: a
\* page that is committed, and not in the middle of being restored, holds
\* the value its owner stored last; no store is lost to a freeze that runs
\* on the other thread.
C2_NoLostWrite ==
    (~crashed /\ failed = 0 /\ \A q \in Pages : ~shared[q]) =>
        \A p \in Pages :
            (/\ prot[p] = "rw"
             /\ written[p] # NoVal
             /\ \A t \in Threads :
                    ~(pc[t].st = "restore" /\ PageOf(pc[t].addr) = p))
            => mem[p] = written[p]

\* C4: the page a store has just landed on is the most recently accessed
\* page, so while another page is resident it is not the victim the next
\* fault picks.
C4_RecentlyAccessedNotVictim ==
    [][\A a \in Pages :
          (written'[a] # written[a] /\ written'[a] # NoVal) =>
              \A q \in Pages \ {a} :
                  (/\ prot'[q] = "none"
                   /\ Len(active_ram_pages') >= 2
                   /\ EvictLoopRuns(active_ram_pages', q))
                  => VictimOf(active_ram_pages', q) # a]_vars

\* C5: disk-backed mode, compression on or off, no failure: a load of a page
\* returns the value last stored to it, however often the page has been
\* frozen and restored; every freeze appends a new blob at the cursor and the
\* index entry of the page points at that newest blob.
C5_DiskRestoresLatest ==
    /\ [](( /\ ~crashed
            /\ config_.use_disk_backing
            /\ failed = 0) =>
            \A addr \in Addrs :
                written[PageOf(addr)] # NoVal =>
                    \A r \in LoadResults(addr) :
                        r.failed = 0 =>
                            r.handled /\ r.val = written[PageOf(addr)])
    /\ [][\A p \in Pages :
            (/\ p \in DOMAIN disk_page_locations'
             /\ (p \in DOMAIN disk_page_locations =>
                    disk_page_locations'[p] # disk_page_locations[p]))
            => /\ Len(disk_file') = Len(disk_file) + 1
               /\ SubSeq(disk_file', 1, Len(disk_file)) = disk_file
               /\ disk_file'[Len(disk_file')].off = disk_next_offset
               /\ disk_page_locations'[p][1] = disk_next_offset
               /\ disk_file'[Len(disk_file')].blob.data = mem[p]
               /\ \A i \in 1..Len(disk_file) :
                      disk_file[i].off < disk_page_locations'[p][1]]_vars

\* C5 witness: a page was frozen, restored, stored to, frozen again and
\* restored: it is committed and holds the value of the newest blob, which
\* its index entry points at, while the first blob holds another value.
C5_Witness ==
    /\ config_.use_disk_backing
    /\ failed = 0
    /\ Len(disk_file) = 2
    /\ \E p \in Pages :
          /\ prot[p] = "rw"
          /\ p \in DOMAIN disk_page_locations
          /\ disk_page_locations[p][1] = disk_file[2].off
          /\ disk_file[2].blob.data = written[p]
          /\ blob_page = <<p, p>>
          /\ disk_file[1].blob.data \notin {0, written[p]}
          /\ mem[p] = written[p]

\* C6: with disk backing and encrypt_disk_pages, every blob in the swap file
\* went through the cipher; no page is there in plaintext or as plain LZ4.
C6_SwapFileEncrypted ==
    (config_.use_disk_backing /\ config_.encrypt_disk_pages) =>
        \A i \in 1..Len(disk_file) : disk_file[i].blob.fmt = "chacha20"

\* C7: after an Initialize that returned true with encrypt_disk_pages set, the
\* key has been generated: encryption_initialized_ is true.
C7_KeyReadyAfterInitialize ==
    (/\ last.op = "Initialize"
     /\ last.ret = 1
     /\ config_.use_disk_backing
     /\ config_.encrypt_disk_pages)
    => encryption_initialized_

\* C8: when the handler runs for a page another handler run has already made
\* resident (two threads trapped on it), it leaves the contents of the page
\* as they are.
C8_SecondHandlerKeepsContents ==
    [][\A t \in Threads :
          (/\ pc[t].st = "restore"
           /\ pc'[t].st = "retry"
           /\ PageOf(pc[t].addr) \in ListSet(active_ram_pages))
          => mem'[PageOf(pc[t].addr)] = mem[PageOf(pc[t].addr)]]_vars

\* C9: in every mode, also after compressor and disk write failures during
\* eviction, a load of a page returns the value last stored to it.
C9_FailuresKeepContents ==
    ~crashed =>
        \A addr \in Addrs :
            written[PageOf(addr)] # NoVal =>
                \A r \in LoadResults(addr) :
                    r.handled /\ r.val = written[PageOf(addr)]

\* C10: an iteration of the eviction loop whose freeze fails leaves its
\* victim resident: committed and in the resident list.
C10_FailedFreezeLeavesResident ==
    \A q \in Pages :
        (prot[q] = "none" /\ EvictLoopRuns(active_ram_pages, q)) =>
            \A M2 \in EvictIterations(Cur, q) :
                M2.failed > failed =>
                    /\ VictimOf(active_ram_pages, q) \in ListSet(M2.list)
                    /\ M2.prot[VictimOf(active_ram_pages, q)] = "rw"

\* C11: every fault on an address inside a live allocation is handled: when
\* the handler returns it has claimed the fault, the faulting page is
\* committed and is in the resident list, also when the eviction inside that
\* fault hit a compressor or disk write failure.
C11_FaultHandled ==
    ~crashed =>
        \A addr \in Addrs :
            (PageOf(addr) \in LivePages /\ prot[PageOf(addr)] # "rw") =>
                \A r \in SignalHandler(Cur, addr) :
                    /\ r.handled
                    /\ r.m.prot[PageOf(addr)] = "rw"
                    /\ PageOf(addr) \in ListSet(r.m.list)

\* C11 witness: a page of a live allocation is not committed and the fault
\* on it has an outcome in which the eviction it runs fails.
C11_Witness ==
    /\ ~crashed
    /\ \E p \in LivePages :
          /\ prot[p] = "none"
          /\ \E r \in SignalHandler(Cur, p) :
                 r.handled /\ r.m.failed > failed

\* C12: for every page, the stored reference count equals the number of live
\* allocation records whose page-rounded span contains the page; a page
\* without an entry counts as zero.
C12_RefCountMatchesRecords ==
    \A p \in Pages :
        (IF p \in DOMAIN page_ref_counts_ THEN page_ref_counts_[p] ELSE 0)
        = Cardinality({ptr \in DOMAIN allocation_metadata_ :
                           p \in RecordPages(ptr)})

\* C12 witness: a two-page allocation is live next to a page whose
\* allocation was deallocated: the first has entries for both its pages, the
\* second has none.
C12_Witness ==
    /\ \E ptr \in DOMAIN allocation_metadata_ :
          /\ Cardinality(RecordPages(ptr)) = 2
          /\ RecordPages(ptr) \subseteq DOMAIN page_ref_counts_
    /\ \E q \in DOMAIN managed_blocks :
          q \notin DOMAIN page_ref_counts_ /\ q \notin LivePages

\* C13: no two live allocation records have the same pointer (the records
\* are a map keyed by the pointer, so their spans are compared here), and no
\* two entries of the managed-region registry overlap, also after pages were
\* deallocated and their addresses were handed out again to an allocation
\* of another size.
C13_RecordsAndRegionsDisjoint ==
    /\ \A p1, p2 \in DOMAIN allocation_metadata_ :
          p1 # p2 => RecordPages(p1) \cap RecordPages(p2) = {}
    /\ \A b1, b2 \in DOMAIN managed_blocks :
          b1 # b2 => \/ b1 + managed_blocks[b1] <= b2
                     \/ b2 + managed_blocks[b2] <= b1

C16_DeallocateCleansUp ==
    [][\A ptr \in DOMAIN allocation_metadata_ :
          last' = Event("DeallocateGhost", ptr, 2) =>
              /\ ptr \notin DOMAIN allocation_metadata_'
              /\ \A p \in RecordPages(ptr) :
                    (p \in DOMAIN page_ref_counts_ /\ page_ref_counts_[p] = 1) =>
                        /\ p \notin DOMAIN page_ref_counts_'
                        /\ p \notin ListSet(active_ram_pages')
                        /\ p \notin DOMAIN backing_store'
                        /\ p \notin DOMAIN disk_page_locations']_vars

\* C16 witness: a two-page allocation has just been deallocated while
\* another page is resident: both its pages are gone from every structure.
C16_Witness ==
    /\ last = Event("DeallocateGhost", last.ptr, 2)
    /\ last.ptr \notin DOMAIN allocation_metadata_
    /\ managed_blocks[last.ptr] = 2 * PAGE_SIZE
    /\ \A p \in SpanPages(last.ptr, 2) :
          /\ p \notin DOMAIN page_ref_counts_
          /\ prot[p] = "unmapped"
    /\ active_ram_pages # << >>

\* C17: DeallocateGhost with a null pointer is a no-op for every size
\* argument: allocation records, reference counts, resident list, both
\* backing stores and the managed-region registry stay as they are.
C17_NullDeallocateNoOp ==
    [][last' = Event("DeallocateGhost", nullptr, 0) =>
          UNCHANGED <<allocation_metadata_, page_ref_counts_,
                      active_ram_pages, backing_store, disk_page_locations,
                      disk_file, disk_next_offset, managed_blocks,
                      prot, mem>>]_vars

\* C17 witness: DeallocateGhost(nullptr) has returned while a page is
\* resident and another one is frozen.
C17_Witness ==
    /\ last = Event("DeallocateGhost", nullptr, 0)
    /\ active_ram_pages # << >>
    /\ (DOMAIN backing_store) \cup (DOMAIN disk_page_locations) # {}
    /\ \E p \in LivePages : prot[p] = "none"

\* C18: DeallocateGhost of a pointer without a live allocation record
\* changes no state; a second DeallocateGhost(p, n) directly after
\* DeallocateGhost(p, n) is such a call and leaves everything as the first
\* call left it.
C18_UntrackedDeallocateNoOp ==
    [][\A ptr \in Pages :
          /\ last' = Event("DeallocateGhost", ptr, 1) =>
                UNCHANGED <<allocation_metadata_, page_ref_counts_,
                            active_ram_pages, backing_store,
                            disk_page_locations, disk_file, disk_next_offset,
                            managed_blocks, prot, mem>>
          /\ (/\ last = Event("DeallocateGhost", ptr, 2)
              /\ last'.op = "DeallocateGhost"
              /\ last'.ptr = ptr) => last'.ret = 1]_vars

\* C18 witness: the second DeallocateGhost of a pointer has returned (its
\* page is unmapped and its region is still registered) while another page
\* is resident.
C18_Witness ==
    /\ last = Event("DeallocateGhost", last.ptr, 1)
    /\ last.ptr \in DOMAIN managed_blocks
    /\ prot[last.ptr] = "unmapped"
    /\ active_ram_pages # << >>

\* C19: an access to a page of a live allocation that nothing was stored to
\* since AllocateGhost returned reads zeros, the first access included; also
\* when the allocation received an address that an earlier, deallocated
\* allocation used and whose page had been stored to or frozen.
C19_FreshPagesReadZero ==
    ~crashed =>
        \A addr \in Addrs :
            (PageOf(addr) \in LivePages /\ written[PageOf(addr)] = NoVal) =>
                \A r \in LoadResults(addr) : r.handled /\ r.val = 0

\* C19 witness: a page of a new allocation has not been touched yet, and the
\* swap file holds a blob with stored data that was written for the same
\* address under an earlier allocation.
C19_Witness ==
    /\ ~crashed
    /\ \E p \in LivePages :
          /\ written[p] = NoVal
          /\ prot[p] = "none"
          /\ p \notin DOMAIN disk_page_locations
          /\ \E i \in 1..Len(disk_file) :
                 blob_page[i] = p /\ disk_file[i].blob.data # 0

\* C20: a fault at an address that lies in no registered managed region is
\* never claimed: the handler returns not-ours (it re-raises the signal
\* with the default disposition) and has not committed, restored, evicted
\* or marked any page.
C20_ForeignFaultNotClaimed ==
    /\ [](~crashed =>
            \A addr \in Addrs :
                (\A b \in DOMAIN managed_blocks :
                     addr < b \/ addr >= b + managed_blocks[b]) =>
                    \A r \in SignalHandler(Cur, addr) :
                        ~r.handled /\ r.m = Cur)
    /\ [][\A addr \in Addrs :
            (/\ ~crashed
             /\ last' = Event("SIGSEGV", addr, 0)
             /\ \A b \in DOMAIN managed_blocks :
                    addr < b \/ addr >= b + managed_blocks[b]) =>
                /\ crashed'
                /\ UNCHANGED <<prot, mem, active_ram_pages, backing_store,
                               disk_page_locations, disk_file,
                               disk_next_offset, page_ref_counts_,
                               managed_blocks, allocation_metadata_>>]_vars

\* C20 witness: the process has died of a fault at an address outside every
\* registered region, at a moment when the resident list was full and a
\* claimed fault would have evicted a page.
C20_Witness ==
    /\ crashed
    /\ last.op = "SIGSEGV"
    /\ DOMAIN managed_blocks # {}
    /\ \A b \in DOMAIN managed_blocks :
          last.ptr < b \/ last.ptr >= b + managed_blocks[b]
    /\ Len(active_ram_pages) = EffectiveMax

\* C21: after DeallocateGhost has released the pages of an allocation, and
\* while no later allocation covers them, an access to such a page is an
\* access violation the handler does not service: the process dies, the
\* page is not committed and does not enter the resident list.
C21_FreedPageNotServiced ==
    /\ [](~crashed =>
            \A addr \in Addrs :
                (/\ prot[PageOf(addr)] = "unmapped"
                 /\ \E b \in DOMAIN managed_blocks :
                        addr >= b /\ addr < b + managed_blocks[b]) =>
                    \A r \in SignalHandler(Cur, addr) :
                        /\ ~r.handled
                        /\ r.m.prot[PageOf(addr)] = "unmapped"
                        /\ PageOf(addr) \notin ListSet(r.m.list))
    /\ [][\A addr \in Addrs :
            (/\ ~crashed
             /\ last' = Event("SIGSEGV", addr, 0)
             /\ prot[PageOf(addr)] = "unmapped") =>
                /\ crashed'
                /\ prot'[PageOf(addr)] = "unmapped"
                /\ PageOf(addr) \notin ListSet(active_ram_pages')]_vars

\* C21 witness: the process has died of an access to a page that was
\* allocated, resident under a stored value or not, and deallocated: its
\* region is still registered, the page is unmapped and in no list.
C21_Witness ==
    /\ crashed
    /\ last.op = "SIGSEGV"
    /\ prot[PageOf(last.ptr)] = "unmapped"
    /\ PageOf(last.ptr) \in DOMAIN managed_blocks
    /\ PageOf(last.ptr) \notin LivePages
    /\ active_ram_pages # << >>

\* C22: Initialize returns false exactly when use_disk_backing is set and
\* the swap file cannot be opened; in every other case it returns true: the
\* in-memory configurations, and the disk configurations whose file was
\* opened, with the write cursor at 0.
C22_InitializeResult ==
    last.op = "Initialize" =>
        /\ (last.ret = 0) <=>
               (config_.use_disk_backing /\ disk_file_descriptor = -1)
        /\ last.ret \in {0, 1}
        /\ (last.ret = 1 /\ config_.use_disk_backing) =>
               /\ disk_file_descriptor # -1
               /\ disk_next_offset = 0
               /\ disk_file = << >>

\* C22 witness: Initialize has returned false for a disk configuration
\* whose file could not be opened.
C22_Witness ==
    /\ last = Event("Initialize", 0, 0)
    /\ config_.use_disk_backing
    /\ disk_file_descriptor = -1

\* C23: a successful AllocateGhost(size) with size > 0 records one
\* allocation keyed by the returned base with the requested size, adds one
\* to the reference count of exactly the ceil(size / 4096) consecutive
\* pages from the base, and leaves those pages reserved: protected, and in
\* neither the resident list nor a backing store.
C23_AllocateReserves ==
    [][\A ptr \in Pages, size \in AllocSizes \ {0} :
          (/\ last' = Event("AllocateGhost", ptr, size)
           /\ ptr \notin DOMAIN allocation_metadata_) =>
              LET n == CHOOSE k \in 1..(NumPages + 1) :
                           (k - 1) * 4096 < size /\ size <= k * 4096
                  span == {ptr + i * 4096 : i \in 0..(n - 1)}
                  count(rc, p) == IF p \in DOMAIN rc THEN rc[p] ELSE 0
              IN  /\ DOMAIN allocation_metadata_' =
                         (DOMAIN allocation_metadata_) \cup {ptr}
                  /\ allocation_metadata_'[ptr].size = size
                  /\ \A q \in DOMAIN allocation_metadata_ :
                         allocation_metadata_'[q] = allocation_metadata_[q]
                  /\ \A p \in Pages :
                         count(page_ref_counts_', p) =
                             count(page_ref_counts_, p)
                             + (IF p \in span THEN 1 ELSE 0)
                  /\ \A p \in span :
                         /\ prot'[p] = "none"
                         /\ p \notin ListSet(active_ram_pages')
                         /\ p \notin DOMAIN backing_store'
                         /\ p \notin DOMAIN disk_page_locations'
                  /\ UNCHANGED <<active_ram_pages, backing_store,
                                 disk_page_locations>>]_vars

\* C23 witness: AllocateGhost(4097) has returned a base whose second page
\* was the page of an earlier, deallocated allocation, while another page
\* is resident: both pages are counted once and reserved.
C23_Witness ==
    /\ last = Event("AllocateGhost", last.ptr, PAGE_SIZE + 1)
    /\ last.ptr # nullptr
    /\ last.ptr + PAGE_SIZE \in DOMAIN managed_blocks
    /\ \A p \in {last.ptr, last.ptr + PAGE_SIZE} :
          /\ p \in DOMAIN page_ref_counts_
          /\ page_ref_counts_[p] = 1
          /\ prot[p] = "none"
    /\ active_ram_pages # << >>

\* C24: disk-backed mode, every state after Initialize: the byte range
\* [offset, offset + length) of each disk_page_locations entry lies below
\* the write cursor, inside the swap file, and the ranges of two different
\* entries do not overlap.
C24_DiskRangesDisjoint ==
    config_.use_disk_backing =>
        /\ \A p \in DOMAIN disk_page_locations :
              /\ disk_page_locations[p][1] >= 0
              /\ disk_page_locations[p][2] > 0
              /\ disk_page_locations[p][1] + disk_page_locations[p][2]
                     <= disk_next_offset
              /\ \E i \in 1..Len(disk_file) :
                     /\ disk_file[i].off = disk_page_locations[p][1]
                     /\ disk_file[i].blob.size = disk_page_locations[p][2]
        /\ \A p, q \in DOMAIN disk_page_locations :
              p # q =>
                  \/ disk_page_locations[p][1] + disk_page_locations[p][2]
                         <= disk_page_locations[q][1]
                  \/ disk_page_locations[q][1] + disk_page_locations[q][2]
                         <= disk_page_locations[p][1]

\* C24 witness: two pages have an entry each for compressed blobs, the
\* second blob starting where the first one ends.
C24_Witness ==
    /\ config_.use_disk_backing
    /\ config_.compress_before_disk
    /\ \E p, q \in DOMAIN disk_page_locations :
          /\ p # q
          /\ disk_page_locations[p][1] = 0
          /\ disk_page_locations[q][1] = disk_page_locations[p][2]
          /\ disk_next_offset =
                 disk_page_locations[p][2] + disk_page_locations[q][2]

C26_StoredPagesFrozen ==
    (~config_.use_disk_backing /\ mutex_ = 0) =>
        \A p \in DOMAIN backing_store :
            /\ p \in LivePages
            /\ prot[p] = "none"
            /\ p \notin ListSet(active_ram_pages)

\* C26 witness: no handler is running, and a page both threads have
\* accessed sits in backing_store, after a DeallocateGhost of another page.
C26_Witness ==
    /\ ~config_.use_disk_backing
    /\ mutex_ = 0
    /\ \E p \in DOMAIN backing_store : shared[p] /\ prot[p] = "none"
    /\ \E b \in DOMAIN managed_blocks : prot[b] = "unmapped"

\* C27: the eviction run inside a fault never evicts the page being
\* faulted in.  When that page is in the resident list it stays there and
\* stays committed; when it is the oldest entry and another page is
\* resident, the second-oldest entry is removed and evicted instead; when
\* it is the only resident page, nothing is evicted.
C27_ProtectedPageNotEvicted ==
    [][\A t \in Threads :
          LET p == PageOf(pc[t].addr)
              n == Len(active_ram_pages)
          IN  (/\ pc[t].st = "evict"
               /\ pc'[t] # pc[t]
               /\ p \in ListSet(active_ram_pages)) =>
                  /\ p \in ListSet(active_ram_pages')
                  /\ prot'[p] = prot[p]
                  /\ p \notin DOMAIN backing_store'
                  /\ (n >= 2 /\ n >= EffectiveMax /\ active_ram_pages[n] = p) =>
                         /\ pc'[t].victim = active_ram_pages[n - 1]
                         /\ active_ram_pages' =
                                SubSeq(active_ram_pages, 1, n - 2) \o <<p>>
                         /\ \/ active_ram_pages[n - 1] \in DOMAIN backing_store'
                            \/ failed' > failed
                  /\ active_ram_pages = <<p>> =>
                         /\ pc'[t].st = "commit"
                         /\ UNCHANGED <<active_ram_pages, backing_store, prot>>]_vars

\* C27 witness: a handler run for a page that was the oldest of two
\* resident pages has taken the other one as its victim: the victim is in
\* backing_store and the faulting page is still the resident one.
C27_Witness ==
    \E t \in Threads :
        /\ pc[t].st = "protect"
        /\ active_ram_pages = <<PageOf(pc[t].addr)>>
        /\ pc[t].victim # PageOf(pc[t].addr)
        /\ pc[t].victim \in DOMAIN backing_store
        /\ EffectiveMax = 2

\* C28: every eviction victim is the entry at the tail of the resident list
\* at the moment of the eviction, unless the tail is the page being faulted
\* in, and then it is the entry just before the tail; no other resident
\* page is chosen: the page that leaves the list, and the page that goes to
\* backing_store, is that one.
C28_VictimFromTail ==
    [][LET n == Len(active_ram_pages)
           expected(p) == IF active_ram_pages[n] # p
                          THEN active_ram_pages[n]
                          ELSE active_ram_pages[n - 1]
       IN  /\ \A t \in Threads :
                 (pc[t].st = "evict" /\ active_ram_pages' # active_ram_pages) =>
                     /\ ListSet(active_ram_pages) \ ListSet(active_ram_pages')
                            = {expected(PageOf(pc[t].addr))}
                     /\ pc'[t].victim = expected(PageOf(pc[t].addr))
                     /\ active_ram_pages' =
                            SelectSeq(active_ram_pages,
                                      LAMBDA q : q # expected(PageOf(pc[t].addr)))
           /\ \A q \in (DOMAIN backing_store') \ (DOMAIN backing_store) :
                 \E t \in Threads :
                     /\ pc[t].st = "evict"
                     /\ n >= 1
                     /\ q = expected(PageOf(pc[t].addr))]_vars

\* C28 witness: a handler run is about to evict with two pages resident,
\* the page it was called for at the head and another page at the tail.
C28_Witness ==
    \E t \in Threads :
        /\ pc[t].st = "evict"
        /\ Len(active_ram_pages) = 2
        /\ EffectiveMax = 2
        /\ active_ram_pages[1] = PageOf(pc[t].addr)

\* C29: in every reachable state the resident list holds no page twice,
\* also when the handler runs a second time for a page that is already in
\* the list.
C29_ResidentListNoDuplicates ==
    \A i, j \in 1..Len(active_ram_pages) :
        i # j => active_ram_pages[i] # active_ram_pages[j]

\* C29 witness: a handler run has committed a page that is already in the
\* resident list, behind another page, and is about to mark it active.
C29_Witness ==
    \E t \in Threads :
        /\ pc[t].st = "restore"
        /\ Len(active_ram_pages) = 2
        /\ active_ram_pages[2] = PageOf(pc[t].addr)

\* C30: right after the handler has handled a fault on page p, p is the
\* first entry of the resident list, it is there once, and the other pages
\* that remain in the list are in the order they were in before.
C30_FaultedPageFirst ==
    ~crashed =>
        \A addr \in Addrs :
            prot[PageOf(addr)] # "rw" =>
                \A r \in SignalHandler(Cur, addr) :
                    r.handled =>
                        /\ Len(r.m.list) >= 1
                        /\ r.m.list[1] = PageOf(addr)
                        /\ PageOf(addr) \notin ListSet(Tail(r.m.list))
                        /\ Tail(r.m.list) =
                               SelectSeq(active_ram_pages,
                                         LAMBDA q : q \in ListSet(Tail(r.m.list)))

\* C30 witness: two pages are resident and a fault on a third page is
\* handled without an eviction: the list has three entries afterwards.
C30_Witness ==
    /\ ~crashed
    /\ Len(active_ram_pages) = 2
    /\ \E p \in LivePages :
          /\ prot[p] = "none"
          /\ \E r \in SignalHandler(Cur, p) :
                 r.handled /\ Len(r.m.list) = 3

\* C31: restoring a page in in-memory mode removes its entry from
\* backing_store; restoring a page in disk-backed mode leaves its
\* disk_page_locations entry, offset and length, as it is.  That entry is
\* replaced only by the next successful freeze of the page and removed only
\* by the DeallocateGhost that releases the page.
C31_RestoreAndStoredEntries ==
    /\ [](~crashed =>
            \A addr \in Addrs :
                prot[PageOf(addr)] # "rw" =>
                    \A r \in SignalHandler(Cur, addr) :
                        r.handled =>
                            /\ ~config_.use_disk_backing =>
                                   PageOf(addr) \notin DOMAIN r.m.bs
                            /\ config_.use_disk_backing =>
                                   /\ PageOf(addr) \in DOMAIN disk_page_locations
                                          <=> PageOf(addr) \in DOMAIN r.m.dl
                                   /\ PageOf(addr) \in DOMAIN disk_page_locations =>
                                          r.m.dl[PageOf(addr)] =
                                              disk_page_locations[PageOf(addr)])
    /\ [][\A p \in DOMAIN disk_page_locations :
            /\ p \notin DOMAIN disk_page_locations' =>
                  /\ last'.op = "DeallocateGhost"
                  /\ last'.ret = 2
                  /\ p \in LivePages
                  /\ prot'[p] = "unmapped"
            /\ (/\ p \in DOMAIN disk_page_locations'
                /\ disk_page_locations'[p] # disk_page_locations[p]) =>
                  /\ prot[p] = "rw"
                  /\ prot'[p] = "none"
                  /\ Len(disk_file') = Len(disk_file) + 1
                  /\ blob_page'[Len(disk_file')] = p
                  /\ disk_page_locations'[p][1] = disk_file'[Len(disk_file')].off]_vars

\* C31 witness: disk-backed mode, a page frozen to the swap file is
\* protected, and the fault on it has an outcome that restores it with its
\* index entry as it was, while that outcome freezes another page.
C31_Witness ==
    /\ ~crashed
    /\ config_.use_disk_backing
    /\ \E p \in DOMAIN disk_page_locations :
          /\ prot[p] = "none"
          /\ \E r \in SignalHandler(Cur, p) :
                 /\ r.handled
                 /\ r.m.dl[p] = disk_page_locations[p]
                 /\ Len(r.m.file) > Len(disk_file)

\* C32: disk-backed mode after Initialize: the write cursor never
\* decreases.  A successful put appends one blob at the cursor, records the
\* cursor as the offset of the entry of the frozen page and moves the
\* cursor by exactly the stored length; a failed put leaves the cursor, the
\* swap file and the index as they are; DeallocateGhost and the restore of
\* a page do not move the cursor, so no space is used twice.
C32_CursorOnlyAdvances ==
    [][(config_.use_disk_backing /\ last'.op # "Initialize") =>
          /\ disk_next_offset' >= disk_next_offset
          /\ disk_file' # disk_file =>
                /\ Len(disk_file') = Len(disk_file) + 1
                /\ SubSeq(disk_file', 1, Len(disk_file)) = disk_file
                /\ disk_file'[Len(disk_file')].off = disk_next_offset
                /\ disk_next_offset' =
                       disk_next_offset + disk_file'[Len(disk_file')].blob.size
                /\ disk_page_locations'[blob_page'[Len(disk_file')]] =
                       <<disk_next_offset, disk_file'[Len(disk_file')].blob.size>>
          /\ disk_file' = disk_file =>
                /\ disk_next_offset' = disk_next_offset
                /\ last'.op # "DeallocateGhost" =>
                       disk_page_locations' = disk_page_locations
          /\ failed' > failed =>
                /\ disk_next_offset' = disk_next_offset
                /\ disk_file' = disk_file
                /\ disk_page_locations' = disk_page_locations
          /\ last'.op = "DeallocateGhost" =>
                disk_next_offset' = disk_next_offset]_vars

\* C32 witness: two compressed blobs lie one after the other below the
\* cursor, and the page of the first blob has been deallocated since: its
\* bytes are still in the file.
C32_Witness ==
    /\ config_.use_disk_backing
    /\ config_.compress_before_disk
    /\ Len(disk_file) = 2
    /\ disk_file[2].off = disk_file[1].blob.size
    /\ disk_next_offset = disk_file[1].blob.size + disk_file[2].blob.size
    /\ blob_page[1] \notin DOMAIN disk_page_locations
    /\ blob_page[1] \notin LivePages

\* C33: eviction only happens at capacity.  A fault handled while the
\* resident list holds fewer entries than the limit evicts nothing: the
\* eviction run leaves the list, backing_store, disk_page_locations and the
\* swap file as they are, every other resident page is still resident and
\* committed after the fault, and no store has a new or changed entry (the
\* restore takes the in-memory copy of the faulted page itself, C31).
C33_NoEvictionBelowLimit ==
    ~crashed =>
        \A addr \in Addrs :
            (/\ prot[PageOf(addr)] # "rw"
             /\ Len(active_ram_pages) < EffectiveMax) =>
                /\ EvictOldestPage(Cur, PageOf(addr)) = {Cur}
                /\ \A r \in SignalHandler(Cur, addr) :
                      r.handled =>
                          /\ r.m.list = <<PageOf(addr)>> \o active_ram_pages
                          /\ \A q \in ListSet(active_ram_pages) :
                                 r.m.prot[q] = "rw"
                          /\ r.m.bs = MapErase(backing_store, PageOf(addr))
                          /\ r.m.dl = disk_page_locations
                          /\ r.m.file = disk_file
                          /\ r.m.off = disk_next_offset
                          /\ r.m.failed = failed

\* C33 witness: the limit is 2, one page is resident, and a page that an
\* earlier eviction put into backing_store is about to be faulted in.
C33_Witness ==
    /\ ~crashed
    /\ EffectiveMax = 2
    /\ Len(active_ram_pages) = 1
    /\ \E p \in DOMAIN backing_store :
          /\ prot[p] = "none"
          /\ \E r \in SignalHandler(Cur, p) :
                 r.handled /\ Len(r.m.list) = 2

\* C34: when the eviction loop picks a victim whose reference count is zero
\* or missing (a zombie), that iteration does not freeze it: no entry of
\* backing_store, disk_page_locations or the swap file is created, the
\* victim's entries in backing_store, disk_page_locations and
\* page_ref_counts_ are gone, the victim has left the resident list and its
\* memory is released; the loop then goes on, so that at its end the list
\* is below the limit or at the emergency brake.
C34_ZombieNotFrozen ==
    ~crashed =>
        \A p \in Pages :
            LET victim == VictimOf(active_ram_pages, p) IN
            (/\ prot[p] = "none"
             /\ Containing(p) # {}
             /\ EvictLoopRuns(active_ram_pages, p)
             /\ (victim \notin DOMAIN page_ref_counts_ \/ page_ref_counts_[victim] = 0)) =>
                /\ \A M2 \in EvictIterations(Cur, p) :
                      /\ M2.list = ListAfterPick(active_ram_pages, p)
                      /\ victim \notin ListSet(M2.list)
                      /\ M2.bs = MapErase(backing_store, victim)
                      /\ M2.dl = MapErase(disk_page_locations, victim)
                      /\ M2.rc = MapErase(page_ref_counts_, victim)
                      /\ M2.prot[victim] = "unmapped"
                      /\ M2.file = disk_file
                      /\ M2.off = disk_next_offset
                      /\ M2.failed = failed
                /\ \A M3 \in EvictOldestPage(Cur, p) :
                      /\ ~EvictLoopRuns(M3.list, p)
                      /\ victim \notin ListSet(M3.list)
                      /\ victim \notin DOMAIN M3.bs \cup DOMAIN M3.dl
                      /\ M3.prot[victim] = "unmapped"

\* C34 witness: at limit 2 the tail of the resident list is a page without
\* a reference count, the head is a page of a live allocation, and a fault
\* on a reserved page of a managed block is about to evict the tail.
C34_Witness ==
    /\ ~crashed
    /\ EffectiveMax = 2
    /\ Len(active_ram_pages) = 2
    /\ Back(active_ram_pages) \notin DOMAIN page_ref_counts_
    /\ active_ram_pages[1] \in LivePages
    /\ \E p \in LivePages :
          /\ prot[p] = "none"
          /\ VictimOf(active_ram_pages, p) = Back(active_ram_pages)
          /\ \E r \in SignalHandler(Cur, p) :
                 r.handled /\ r.m.prot[Back(active_ram_pages)] = "unmapped"

\* C35: the state of a page (none, Reserved, Resident, Frozen) changes only
\* along the allowed transitions: to Reserved from none through the
\* AllocateGhost that maps it, to Resident from Reserved or Frozen through
\* a handled fault on the page itself, to Frozen from Resident through an
\* eviction during a fault, and to none through the DeallocateGhost of its
\* allocation; no other step changes the state of a page.
C35_AllowedTransitions ==
    [][\A p \in Pages :
        LET St(live, list, bs, dl, pr) ==
                IF p \notin live THEN "none"
                ELSE IF p \in ListSet(list) /\ pr[p] = "rw" THEN "Resident"
                ELSE IF p \in ListSet(list) \/ pr[p] # "none" THEN "other"
                ELSE IF p \in DOMAIN bs \cup DOMAIN dl THEN "Frozen"
                ELSE "Reserved"
            s == St(LivePages, active_ram_pages, backing_store,
                    disk_page_locations, prot)
            s2 == St(LivePages', active_ram_pages', backing_store',
                     disk_page_locations', prot')
        IN  s # s2 =>
               \/ /\ s = "none" /\ s2 = "Reserved"
                  /\ last'.op = "AllocateGhost"
                  /\ p \in SpanPages(last'.ptr, AlignUp(last'.ret) \div PAGE_SIZE)
               \/ /\ s \in {"Reserved", "Frozen"} /\ s2 = "Resident"
                  /\ last' = NoCall
                  /\ active_ram_pages'[1] = p
               \/ /\ s = "Resident" /\ s2 = "Frozen"
                  /\ last'.op \in {"none", "SIGSEGV"}
                  /\ active_ram_pages' # active_ram_pages
               \/ /\ s2 = "none"
                  /\ last'.op = "DeallocateGhost"
                  /\ p \in RecordPages(last'.ptr)]_vars

\* C36: in every reachable state a page of a live allocation is committed
\* if and only if it is in the resident list, so that the number of
\* committed pages of live allocations is the length of the list; also
\* after a freeze has failed.
C36_CommittedIffListed ==
    /\ \A p \in LivePages : prot[p] = "rw" <=> p \in ListSet(active_ram_pages)
    /\ Cardinality({p \in LivePages : prot[p] = "rw"}) = Len(active_ram_pages)

\* C37: an Initialize that returns false (the swap file could not be
\* opened) leaves config_, the descriptor, the cursor, the swap file and
\* every store as they were, so that the evictions that follow work in the
\* backing mode that was active before the call.
C37_FailedInitializeKeepsConfig ==
    [][(last'.op = "Initialize" /\ last'.ret = 0) =>
          /\ config_' = config_
          /\ UNCHANGED <<disk_file_descriptor, disk_next_offset, disk_file,
                         active_ram_pages, backing_store, disk_page_locations,
                         page_ref_counts_, allocation_metadata_, managed_blocks>>]_vars

\* C38: a fault that the handler does not claim, also a fault inside a
\* block whose pages have been deallocated, leaves the resident list,
\* backing_store, disk_page_locations, the swap file and its cursor and
\* page_ref_counts_ as they were: nothing is evicted for it.
C38_UnclaimedFaultChangesNothing ==
    ~crashed =>
        \A addr \in Addrs :
            prot[PageOf(addr)] # "rw" =>
                \A r \in SignalHandler(Cur, addr) :
                    ~r.handled =>
                        /\ r.m.list = active_ram_pages
                        /\ r.m.bs = backing_store
                        /\ r.m.dl = disk_page_locations
                        /\ r.m.file = disk_file
                        /\ r.m.off = disk_next_offset
                        /\ r.m.rc = page_ref_counts_
                        /\ r.m.prot = prot

\* C39: with the limit set by Initialize before the first AllocateGhost, a
\* handled fault takes at most one page off the resident list: at most one
\* page that was listed before the fault is not listed after it.
C39_AtMostOneEviction ==
    ~crashed =>
        \A addr \in Addrs :
            prot[PageOf(addr)] # "rw" =>
                \A r \in SignalHandler(Cur, addr) :
                    r.handled =>
                        /\ Cardinality(ListSet(active_ram_pages)
                                           \ ListSet(r.m.list)) <= 1
                        /\ Len(r.m.list) >= Len(active_ram_pages)
                        /\ Len(r.m.list) <= EffectiveMax

\* C39 witness: two pages are resident at limit 2 and a handled fault on a
\* third page takes one of them off the list and leaves the other.
C39_Witness ==
    /\ ~crashed
    /\ EffectiveMax = 2
    /\ Len(active_ram_pages) = 2
    /\ \E p \in LivePages :
          /\ prot[p] = "none"
          /\ \E r \in SignalHandler(Cur, p) :
                 /\ r.handled
                 /\ r.m.list = <<p, active_ram_pages[1]>>

\* C40: the eviction loop terminates.  At the head of the loop either no
\* iteration follows, because the list is below the limit or holds the
\* protected page alone (the emergency brake), or the iteration takes
\* exactly one entry off the resident list, never the protected page,
\* whether its freeze succeeds or fails; and a handler that is in the loop
\* reaches the mprotect that follows it.
C40_EvictionLoopTerminates ==
    /\ [](\A t \in Threads :
             pc[t].st = "evict" =>
                 LET p == PageOf(pc[t].addr) IN
                 IF EvictLoopRuns(active_ram_pages, p)
                 THEN \A M2 \in EvictIterations(Cur, p) :
                         /\ Len(M2.list) = Len(active_ram_pages) - 1
                         /\ ListSet(M2.list) \subseteq ListSet(active_ram_pages)
                         /\ p \in ListSet(active_ram_pages) => p \in ListSet(M2.list)
                 ELSE \/ Len(active_ram_pages) < EffectiveMax
                      \/ active_ram_pages = <<p>>)
    /\ \A t \in Threads :
          (pc[t].st \in {"evict", "protect"}) ~> (pc[t].st = "commit" \/ crashed)

\* C40 witness: at limit 1 a handler stands at the head of the loop with
\* the protected page as the only resident page, after a freeze has failed
\* in this run: the emergency brake ends the loop.
C40_Witness ==
    /\ ~crashed
    /\ EffectiveMax = 1
    /\ failed > 0
    /\ \E t \in Threads :
          /\ pc[t].st = "evict"
          /\ active_ram_pages = <<PageOf(pc[t].addr)>>
====
